---- MODULE Spec2Model ----
(***************************************************************************)
(* Model of the indexedproperty package (src/indexedproperty/__init__.py): *)
(* the Trampoline dispatch core (__getitem__, __setitem__, __delitem__),   *)
(* the ContainerProperty and RangeProperty trampolines (modindex,          *)
(* moduserindex, _negativeindex, _boundindex) and the descriptor's handler *)
(* registry (addmethod, updatetrampoline, __get__).                        *)
(*                                                                         *)
(* The owning object is the callback target of the unit tests: it records  *)
(* every handler call in gets, sets and dels.                              *)
(***************************************************************************)
EXTENDS Integers, Sequences, FiniteSets, TLC

VARIABLES
    kind,           \* which descriptor class: "plain", "container", "range"
    start, stop,    \* tdict['start'], tdict['stop'] of a RangeProperty
    base,           \* tdict['base'] of a ContainerProperty (a list of keys)
    tdict,          \* names of the handlers in the descriptor's tdict
    name__,         \* the descriptor's __name__ (None until a handler sets it)
    trampolinecls,  \* the synthesized trampoline class (None or a class dict)
    gets, sets, dels,   \* the owner's record of getter / setter / deleter calls
    last,           \* the index operation performed since setUp, with its outcome
    document_indices,   \* the constructor's document_indices flag
    doc__,          \* the descriptor's __doc__ (None until a handler sets it)
    reg,            \* the addmethod call under observation, with its outcome
    acc,            \* a bound accessor the caller keeps (None or the trampoline)
    walk,           \* the len() / iteration performed since setUp, with its outcome
    wrapped         \* tdict's values: for each name in tdict, the function it wraps

vars == <<kind, start, stop, base, tdict, name__, trampolinecls, gets, sets, dels, last,
          document_indices, doc__, reg, acc, walk, wrapped>>

----------------------------------------------------------------------------
(* Bounds of the inputs that are tried.                                    *)

MaxIdx == 3     \* integers used as indices and selector endpoints: -MaxIdx..MaxIdx
MaxLen == 2     \* longest explicit list / tuple index
MaxStep == 2    \* selector steps: -MaxStep..MaxStep (zero included)
MaxVLen == 2    \* longest sized value written
MaxFail == 2    \* a handler may be made to raise on its 1st..MaxFail-th call
MaxReg == 2     \* most names registered on one descriptor

----------------------------------------------------------------------------
(* Python values.                                                          *)

None == <<>>
Some(x) == <<x>>

\* Index shapes: an integer or other atom, a list / tuple, a slice object.
Single(i) == [shape |-> "single", i |-> i]
List(s) == [shape |-> "list", elems |-> s]
Slice(b, e, s) == [shape |-> "slice", start |-> b, stop |-> e, step |-> s]
\* the builtin range object that moduserindex builds from a slice
RangeObj(s) == [shape |-> "range", elems |-> s]

\* Value shapes: a number (no len()), a str, a sized non-text collection.
Scalar(n) == [vshape |-> "scalar", n |-> n]
Text(s) == [vshape |-> "str", chars |-> s]
VList(s) == [vshape |-> "list", elems |-> s]
NoValue == [vshape |-> "absent"]

\* Exceptions: the Python class and what raised it.
NoExc == [exc |-> "none", why |-> "none"]
Exc(e, w) == [exc |-> e, why |-> w]

\* builtin range(a, b, s) for s # 0, as the sequence of its elements
RangeLen(a, b, s) ==
    IF s > 0
    THEN (IF b > a THEN (b - a + s - 1) \div s ELSE 0)
    ELSE (IF a > b THEN (a - b + (0 - s) - 1) \div (0 - s) ELSE 0)

PyRange(a, b, s) == [k \in 1..RangeLen(a, b, s) |-> Single(a + (k - 1) * s)]

\* x in list
Contains(seq, x) == \E k \in 1..Len(seq) : seq[k] = x

----------------------------------------------------------------------------
(* The trampolines.                                                        *)

\* Trampoline.iterable_indices and its overrides
iterable_indices ==
    CASE kind = "plain" -> {}
      [] kind = "container" -> {"list"}
      [] kind = "range" -> {"list", "range"}

\* variant of _negativeindex that never wraps
negativeindexNoWrap(idx) == idx

\* RangeProperty._Trampoline._negativeindex
negativeindex(idx) ==
    IF idx >= 0 \/ start < 0 THEN idx ELSE stop + idx

\* RangeProperty._Trampoline._boundindex
boundindex(idx) ==
    LET i == negativeindex(idx) IN
    IF i < start THEN start
    ELSE IF i > stop THEN stop
    ELSE i

\* variant of moduserindex that ignores the slice's step
moduserindexStepOne(index) ==
    IF kind = "range" /\ index.shape = "slice"
    THEN LET b == IF index.start = None THEN start ELSE boundindex(index.start[1])
             e == IF index.stop = None THEN stop ELSE boundindex(index.stop[1])
             s == IF index.step = None THEN 1 ELSE index.step[1]
         IN IF s = 0
            THEN [exc |-> Exc("ValueError", "range() arg 3 must not be zero"), index |-> index]
            ELSE [exc |-> NoExc, index |-> RangeObj(PyRange(b, e, 1))]
    ELSE [exc |-> NoExc, index |-> index]

\* variant of moduserindex whose absent endpoints follow the sign of the
\* step, as the slices of a list do
moduserindexSliceDefaults(index) ==
    IF kind = "range" /\ index.shape = "slice"
    THEN LET s == IF index.step = None THEN 1 ELSE index.step[1]
             b == IF index.start = None
                  THEN (IF s < 0 THEN stop - 1 ELSE start)
                  ELSE boundindex(index.start[1])
             e == IF index.stop = None
                  THEN (IF s < 0 THEN start - 1 ELSE stop)
                  ELSE boundindex(index.stop[1])
         IN IF s = 0
            THEN [exc |-> Exc("ValueError", "range() arg 3 must not be zero"), index |-> index]
            ELSE [exc |-> NoExc, index |-> RangeObj(PyRange(b, e, s))]
    ELSE [exc |-> NoExc, index |-> index]

\* moduserindex: the base version returns the index; the range version
\* turns a slice into a range object (range() raises ValueError on step 0)
moduserindex(index) ==
    IF kind = "range" /\ index.shape = "slice"
    THEN LET b == IF index.start = None THEN start ELSE boundindex(index.start[1])
             e == IF index.stop = None THEN stop ELSE boundindex(index.stop[1])
             s == IF index.step = None THEN 1 ELSE index.step[1]
         IN IF s = 0
            THEN [exc |-> Exc("ValueError", "range() arg 3 must not be zero"), index |-> index]
            ELSE [exc |-> NoExc, index |-> RangeObj(PyRange(b, e, s))]
    ELSE [exc |-> NoExc, index |-> index]

\* modindex of the range trampoline
RangeModindex(index) ==
    LET i == boundindex(index.i) IN
    IF ~(start <= i /\ i < stop)
    THEN [exc |-> Exc("IndexError", "index out of range"), index |-> index]
    ELSE [exc |-> NoExc, index |-> Single(i)]

\* variant of the container modindex that does not validate
ContainerModindexNoCheck(index) == [exc |-> NoExc, index |-> index]

\* variant of the container modindex that validates against the container
\* as it was when the accessor was bound
ContainerModindexCached(index) ==
    IF ~Contains(IF acc # None THEN acc[1].seen ELSE base, index)
    THEN [exc |-> Exc("KeyError", "key"), index |-> index]
    ELSE [exc |-> NoExc, index |-> index]

\* modindex of the container trampoline
ContainerModindex(index) ==
    IF ~Contains(base, index)
    THEN [exc |-> Exc("KeyError", "key"), index |-> index]
    ELSE [exc |-> NoExc, index |-> index]

\* modindex: the base version returns the index; a handler registered under
\* the name modindex is in the class dict and hides the trampoline's method
\* (the handler returns its argument)
modindex(index) ==
    CASE "modindex" \in trampolinecls.dict -> [exc |-> NoExc, index |-> index]
      [] kind = "plain" -> [exc |-> NoExc, index |-> index]
      [] kind = "container" -> ContainerModindex(index)
      [] kind = "range" -> RangeModindex(index)

----------------------------------------------------------------------------
(* Handler calls.  A run is what one index operation has done so far: the  *)
(* handler calls it made, the exception in flight, the values collected.   *)

\* the getter of the tests is a function of the key alone
fget(key) == [got |-> key]

NewRun(failAt, failKind) ==
    [log |-> <<>>, exc |-> NoExc, ret |-> <<>>, many |-> FALSE,
     failAt |-> failAt, failKind |-> failKind]

\* fn(self.modindex(i), v): validate one index, then call the handler; the
\* handler raises failKind on its failAt-th call of the operation
Call(r, i, v) ==
    LET m == modindex(i) IN
    IF m.exc # NoExc
    THEN [r EXCEPT !.exc = m.exc]
    ELSE LET raised == (Len(r.log) + 1 = r.failAt) IN
         [r EXCEPT !.log = Append(@, [key |-> m.index, value |-> v, raised |-> raised]),
                   !.exc = IF raised THEN Exc(r.failKind, "handler") ELSE NoExc,
                   !.ret = IF raised THEN @ ELSE Append(@, fget(m.index))]

\* variant of the loop that visits the index set from its last element
RECURSIVE EachReversed(_, _, _, _)
EachReversed(r, idxs, vals, k) ==
    IF k > Len(idxs) \/ r.exc # NoExc
    THEN r
    ELSE EachReversed(Call(r, idxs[Len(idxs) - k + 1], vals[Len(idxs) - k + 1]),
                      idxs, vals, k + 1)

\* for i, v in zip(idxs, vals): fn(self.modindex(i), v), from position k on,
\* stopping at the first exception
RECURSIVE Each(_, _, _, _)
Each(r, idxs, vals, k) ==
    IF k > Len(idxs) \/ r.exc # NoExc
    THEN r
    ELSE Each(Call(r, idxs[k], vals[k]), idxs, vals, k + 1)

Repeat(v, n) == [k \in 1..n |-> v]

\* variant of the iterability test that passes a member of the container
\* on as a single index
IsIterableUnlessMember(index) ==
    /\ index.shape \in iterable_indices
    /\ ~(kind = "container" /\ Contains(base, index))

\* isinstance(index, self.iterable_indices)
IsIterable(index) == index.shape \in iterable_indices

\* the body of Trampoline.__getitem__ and __delitem__ after the handler lookup
ReadRun(index, failAt, failKind) ==
    LET u == moduserindex(index)
        r0 == NewRun(failAt, failKind)
    IN IF u.exc # NoExc THEN [r0 EXCEPT !.exc = u.exc]
       ELSE IF IsIterable(u.index)
       THEN Each([r0 EXCEPT !.many = TRUE], u.index.elems,
                 Repeat(NoValue, Len(u.index.elems)), 1)
       ELSE Call(r0, u.index, NoValue)

\* variant of the try block without the length comparison: zip() stops at
\* the shorter of the two
TryPairedNoLengthCheck(r0, S, value) ==
    IF value.vshape = "str" THEN [r0 EXCEPT !.exc = Exc("TypeError", "str")]
    ELSE IF value.vshape = "scalar" THEN [r0 EXCEPT !.exc = Exc("TypeError", "len")]
    ELSE LET n == IF Len(value.elems) < Len(S) THEN Len(value.elems) ELSE Len(S)
         IN Each(r0, SubSeq(S, 1, n), SubSeq(value.elems, 1, n), 1)

\* the try block of Trampoline.__setitem__
TryPaired(r0, S, value) ==
    IF value.vshape = "str" THEN [r0 EXCEPT !.exc = Exc("TypeError", "str")]
    ELSE IF value.vshape = "scalar" THEN [r0 EXCEPT !.exc = Exc("TypeError", "len")]
    ELSE IF Len(value.elems) # Len(S)
    THEN [r0 EXCEPT !.exc = Exc("ValueError", "length mismatch")]
    ELSE Each(r0, S, value.elems, 1)

\* variant without the except clause: the TypeError escapes
ExceptNothing(t, S, value) == t

\* except TypeError: broadcast the whole value
ExceptTypeError(t, S, value) ==
    IF t.exc.exc = "TypeError"
    THEN Each([t EXCEPT !.exc = NoExc], S, Repeat(value, Len(S)), 1)
    ELSE t

\* the body of Trampoline.__setitem__ after the handler lookup
WriteRun(index, value, failAt, failKind) ==
    LET u == moduserindex(index)
        r0 == NewRun(failAt, failKind)
    IN IF u.exc # NoExc THEN [r0 EXCEPT !.exc = u.exc]
       ELSE IF IsIterable(u.index)
       THEN ExceptTypeError(TryPaired(r0, u.index.elems, value), u.index.elems, value)
       ELSE Call(r0, u.index, value)

\* the effects the handlers leave on the owner: the calls that did not raise
Effects(log) == SelectSeq(log, LAMBDA c : ~c.raised)

----------------------------------------------------------------------------
(* The inputs.                                                             *)

Ints == (0 - MaxIdx)..MaxIdx
Opt(S) == {None} \cup {Some(x) : x \in S}
SeqsUpTo(S, n) == UNION {[1..m -> S] : m \in 0..n}

SingleIdx == {Single(i) : i \in Ints}
ListIdx == {List(s) : s \in SeqsUpTo(SingleIdx, MaxLen)}
SliceIdx == {Slice(b, e, s) : b \in Opt(Ints), e \in Opt(Ints), s \in Opt((0 - MaxStep)..MaxStep)}

Indices ==
    IF kind = "range" THEN SingleIdx \cup ListIdx \cup SliceIdx
    ELSE SingleIdx \cup ListIdx

\* written values: a number, a two-character str, lists 10, 12, 14, ...
Values ==
    {Scalar(7), Text(<<"a", "b">>)}
    \cup {VList([k \in 1..n |-> Scalar(8 + 2 * k)]) : n \in 1..MaxVLen}

FailKinds == {"TypeError", "RuntimeError"}
Failures == {<<0, "RuntimeError">>} \cup ((1..MaxFail) \X FailKinds)

\* the (start, stop) pairs the descriptors are constructed with
Ranges == {<<1, 2>>, <<0, 2>>, <<-2, 1>>, <<-2, -1>>, <<1, 1>>}
\* the backing containers: lists of integers, and lists that hold a tuple
Bases ==
    {<<Single(2), Single(0), Single(-1)>>, <<>>,
     <<List(<<Single(2), Single(0)>>), Single(2), Single(0)>>,
     <<List(<<Single(2), Single(1)>>), Single(2)>>}

HandlerNames == {"getter", "setter", "deleter"}

Idle == [op |-> "none"]

----------------------------------------------------------------------------
(* The state machine.                                                      *)

\* IndexedProperty(), ContainerProperty(base), RangeProperty(start, stop)
\* with no handler yet, and a fresh test target
Init ==
    /\ kind \in {"plain", "container", "range"}
    /\ \E r \in Ranges :
          /\ start = (IF kind = "range" THEN r[1] ELSE 0)
          /\ stop = (IF kind = "range" THEN r[2] ELSE 0)
    /\ base \in (IF kind = "container" THEN Bases ELSE {<<>>})
    /\ tdict = {}
    /\ name__ = None
    /\ trampolinecls = [built |-> FALSE, dict |-> {}, doc |-> None]
    /\ gets = <<>>
    /\ sets = <<>>
    /\ dels = <<>>
    /\ last = Idle
    /\ document_indices = TRUE
    /\ doc__ = None
    /\ reg = Idle
    /\ acc = None
    /\ walk = Idle
    /\ wrapped = [n \in {} |-> None]

\* IndexedProperty.updatetrampoline, for the tdict, name and doc given
updatetrampoline(d, n, doc) ==
    IF n = None THEN [built |-> FALSE, dict |-> {}, doc |-> None]
    ELSE [built |-> TRUE, dict |-> d, doc |-> doc]

\* variant of _updatedoc where the last function's doc wins
updatedocLastWins(cur, fndoc) ==
    IF kind # "plain" /\ document_indices
    THEN Some([text |-> fndoc, indices |-> TRUE])
    ELSE IF fndoc = None THEN None
    ELSE Some([text |-> fndoc, indices |-> FALSE])

\* _updatedoc('__doc__', fn.__doc__) and its container / range overrides:
\* the doc after a function with doc fndoc (None or a text) is added
updatedoc(cur, fndoc) ==
    IF cur # None THEN cur
    ELSE IF kind # "plain" /\ document_indices
    THEN Some([text |-> fndoc, indices |-> TRUE])
    ELSE IF fndoc = None THEN None
    ELSE Some([text |-> fndoc, indices |-> FALSE])

\* _updatedoc('__name__', fn.__name__)
updatename(cur, fnname) == IF cur # None THEN cur ELSE Some(fnname)

\* the handler functions of the tests' target
TestFn == [name |-> "topten", doc |-> Some("key get blah blah blah")]

\* the getter / setter / deleter decorators: addmethod, then updatetrampoline
Register(name) ==
    /\ last = Idle
    /\ walk = Idle
    /\ tdict' = tdict \cup {name}
    /\ wrapped' = [n \in tdict' |-> IF n = name THEN TestFn ELSE wrapped[n]]
    /\ name__' = updatename(name__, TestFn.name)
    /\ doc__' = updatedoc(doc__, TestFn.doc)
    /\ trampolinecls' = updatetrampoline(tdict', name__', doc__')
    /\ UNCHANGED <<kind, start, stop, base, gets, sets, dels, last,
                   document_indices, reg, acc, walk>>

\* variant of the index operations that expands the index before looking
\* the handler up
OutcomeExpandFirst(op, index, value, failAt, failKind) ==
    LET handler == CASE op = "read" -> "getter"
                     [] op = "write" -> "setter"
                     [] op = "delete" -> "deleter"
        r0 == NewRun(failAt, failKind)
        u == moduserindex(index)
    IN IF ~trampolinecls.built
       THEN [r0 EXCEPT !.exc = Exc("TypeError", "NoneType is not callable")]
       ELSE IF u.exc # NoExc THEN [r0 EXCEPT !.exc = u.exc]
       ELSE IF handler \notin trampolinecls.dict
       THEN [r0 EXCEPT !.exc = Exc("NotImplementedError", "no property " \o handler \o " defined")]
       ELSE IF op = "write" THEN WriteRun(index, value, failAt, failKind)
       ELSE ReadRun(index, failAt, failKind)

\* obj.prop[index]: __get__ instantiates the trampoline class, then the
\* operation looks its handler up and runs
Outcome(op, index, value, failAt, failKind) ==
    LET handler == CASE op = "read" -> "getter"
                     [] op = "write" -> "setter"
                     [] op = "delete" -> "deleter"
        r0 == NewRun(failAt, failKind)
    IN IF ~trampolinecls.built
       THEN [r0 EXCEPT !.exc = Exc("TypeError", "NoneType is not callable")]
       ELSE IF handler \notin trampolinecls.dict
       THEN [r0 EXCEPT !.exc = Exc("NotImplementedError", "no property " \o handler \o " defined")]
       ELSE IF op = "write" THEN WriteRun(index, value, failAt, failKind)
       ELSE ReadRun(index, failAt, failKind)

Record(op, index, value, f, r) ==
    [op |-> op, index |-> index, value |-> value, failAt |-> f[1], failKind |-> f[2],
     exc |-> r.exc, log |-> r.log,
     ret |-> IF r.exc # NoExc \/ op # "read" THEN None
             ELSE IF r.many THEN Some([list |-> r.ret])
             ELSE Some(r.ret[1])]

\* x = obj.prop[index]
GetItem ==
    /\ last = Idle
    /\ walk = Idle
    /\ \E index \in Indices, f \in Failures :
          LET r == Outcome("read", index, NoValue, f[1], f[2]) IN
          /\ gets' = gets \o Effects(r.log)
          /\ last' = Record("read", index, NoValue, f, r)
    /\ UNCHANGED <<kind, start, stop, base, tdict, name__, trampolinecls, sets, dels,
                   document_indices, doc__, reg, acc, walk, wrapped>>

\* obj.prop[index] = value
SetItem ==
    /\ last = Idle
    /\ walk = Idle
    /\ \E index \in Indices, value \in Values, f \in Failures :
          LET r == Outcome("write", index, value, f[1], f[2]) IN
          /\ sets' = sets \o Effects(r.log)
          /\ last' = Record("write", index, value, f, r)
    /\ UNCHANGED <<kind, start, stop, base, tdict, name__, trampolinecls, gets, dels,
                   document_indices, doc__, reg, acc, walk, wrapped>>

\* del obj.prop[index]
DelItem ==
    /\ last = Idle
    /\ walk = Idle
    /\ \E index \in Indices, f \in Failures :
          LET r == Outcome("delete", index, NoValue, f[1], f[2]) IN
          /\ dels' = dels \o Effects(r.log)
          /\ last' = Record("delete", index, NoValue, f, r)
    /\ UNCHANGED <<kind, start, stop, base, tdict, name__, trampolinecls, gets, sets,
                   document_indices, doc__, reg, acc, walk, wrapped>>

\* the tests' setUp: a fresh target with empty call records
setUp ==
    /\ last # Idle \/ walk # Idle
    /\ gets' = <<>>
    /\ sets' = <<>>
    /\ dels' = <<>>
    /\ last' = Idle
    /\ walk' = Idle
    /\ UNCHANGED <<kind, start, stop, base, tdict, name__, trampolinecls,
                   document_indices, doc__, reg, acc, wrapped>>

----------------------------------------------------------------------------
(* len(), iteration, reversed() and items() of the container and range     *)
(* trampolines.                                                            *)

\* self[key] inside an iteration: a whole __getitem__ that continues the run
\* r; the value read (paired with its key for items()) is appended to r.ret
SelfItem(r, key, paired) ==
    IF "getter" \notin trampolinecls.dict
    THEN [r EXCEPT !.exc = Exc("NotImplementedError", "no property getter defined")]
    ELSE LET u == moduserindex(key)
             r0 == [r EXCEPT !.ret = <<>>]
             sub == IF u.exc # NoExc THEN [r0 EXCEPT !.exc = u.exc]
                    ELSE IF IsIterable(u.index)
                    THEN Each(r0, u.index.elems, Repeat(NoValue, Len(u.index.elems)), 1)
                    ELSE Call(r0, u.index, NoValue)
             value == IF IsIterable(u.index) THEN [list |-> sub.ret] ELSE sub.ret[1]
         IN IF sub.exc # NoExc
            THEN [sub EXCEPT !.ret = r.ret]
            ELSE [sub EXCEPT !.ret =
                      Append(r.ret, IF paired THEN [key |-> key, value |-> value] ELSE value)]

\* for key in keys: yield self[key], from position k on
RECURSIVE Pass(_, _, _, _)
Pass(r, keys, k, paired) ==
    IF k > Len(keys) \/ r.exc # NoExc
    THEN r
    ELSE Pass(SelfItem(r, keys[k], paired), keys, k + 1, paired)

\* variant of the key sequences where reversed() runs forwards
WalkKeysForward(op) ==
    IF kind = "container" THEN base ELSE PyRange(start, stop, 1)

\* the keys an iteration visits: iter(self.base), self.range, reversed(self.range)
WalkKeys(op) ==
    IF kind = "container" THEN base
    ELSE IF op = "reversed" THEN PyRange(stop - 1, start - 1, -1)
    ELSE PyRange(start, stop, 1)

\* variant where the container's __iter__ reads every key through the getter
WalkOutcomeIterReads(op, failAt, failKind) ==
    LET r0 == NewRun(failAt, failKind) IN
    IF ~trampolinecls.built
    THEN [r0 EXCEPT !.exc = Exc("TypeError", "NoneType is not callable")]
    ELSE CASE op = "len" ->
                [r0 EXCEPT !.ret = <<[len |-> IF kind = "range" THEN stop - start ELSE Len(base)]>>]
           [] op = "iter" -> Pass(r0, WalkKeys(op), 1, FALSE)
           [] op = "reversed" -> Pass(r0, WalkKeys(op), 1, FALSE)
           [] op = "items" -> Pass(r0, WalkKeys(op), 1, TRUE)

\* len(obj.prop), list(obj.prop), list(reversed(obj.prop)), list(obj.prop.items())
WalkOutcome(op, failAt, failKind) ==
    LET r0 == NewRun(failAt, failKind) IN
    IF ~trampolinecls.built
    THEN [r0 EXCEPT !.exc = Exc("TypeError", "NoneType is not callable")]
    ELSE CASE op = "len" ->
                [r0 EXCEPT !.ret = <<[len |-> IF kind = "range" THEN stop - start ELSE Len(base)]>>]
           [] op = "iter" ->
                IF kind = "container" THEN [r0 EXCEPT !.ret = WalkKeys(op)]
                ELSE Pass(r0, WalkKeys(op), 1, FALSE)
           [] op = "reversed" -> Pass(r0, WalkKeys(op), 1, FALSE)
           [] op = "items" -> Pass(r0, WalkKeys(op), 1, TRUE)

WalkStep(op, f) ==
    /\ last = Idle
    /\ walk = Idle
    /\ kind \in {"container", "range"}
    /\ LET r == WalkOutcome(op, f[1], f[2]) IN
       /\ gets' = gets \o Effects(r.log)
       /\ walk' = [op |-> op, failAt |-> f[1], failKind |-> f[2], exc |-> r.exc,
                   log |-> r.log, ret |-> IF r.exc # NoExc THEN None ELSE Some(r.ret)]
    /\ UNCHANGED <<kind, start, stop, base, tdict, name__, trampolinecls, sets, dels, last,
                   document_indices, doc__, reg, acc, wrapped>>

\* len(obj.prop)
DoLen == WalkStep("len", <<0, "RuntimeError">>)

\* list(obj.prop)
DoIter == \E f \in Failures : WalkStep("iter", f)

\* list(reversed(obj.prop)), which the range trampoline defines
DoReversed == kind = "range" /\ \E f \in Failures : WalkStep("reversed", f)

\* list(obj.prop.items())
DoItems == \E f \in Failures : WalkStep("items", f)

Next ==
    \/ \E name \in HandlerNames : Register(name)
    \/ GetItem
    \/ SetItem
    \/ DelItem
    \/ setUp
    \/ DoLen
    \/ DoIter
    \/ DoReversed
    \/ DoItems

Spec == Init /\ [][Next]_vars

----------------------------------------------------------------------------
(* Registration under any name: addmethod as the decorators of __getattr__ *)
(* and getter / setter / deleter call it, followed by updatetrampoline.    *)

\* variant where every descriptor class rejects the three item methods only
illegalmethodsBase == {"__getitem__", "__setitem__", "__delitem__"}

\* the class attribute illegalmethods of the descriptor's class
illegalmethods ==
    IF kind = "plain"
    THEN {"__getitem__", "__setitem__", "__delitem__"}
    ELSE {"__getitem__", "__setitem__", "__delitem__", "__iter__", "__len__"}

\* the names handlers are registered under
Names ==
    HandlerNames \cup {"__getitem__", "__setitem__", "__delitem__", "__iter__", "__len__",
                       "upper", "modindex"}

\* the functions registered: with their own doc, with another doc, with none
Fns ==
    {TestFn,
     [name |-> "upper", doc |-> Some("upper case")],
     [name |-> "bare", doc |-> None]}

InitReg ==
    /\ kind \in {"plain", "container", "range"}
    /\ start = 0
    /\ stop = (IF kind = "range" THEN 2 ELSE 0)
    /\ base = (IF kind = "container" THEN <<Single(2), Single(0), Single(-1)>> ELSE <<>>)
    /\ document_indices \in (IF kind = "plain" THEN {TRUE} ELSE BOOLEAN)
    /\ tdict = {}
    /\ wrapped = [n \in {} |-> None]
    /\ name__ = None
    /\ doc__ = None
    /\ trampolinecls = [built |-> FALSE, dict |-> {}, doc |-> None]
    /\ gets = <<>>
    /\ sets = <<>>
    /\ dels = <<>>
    /\ last = Idle
    /\ reg = Idle
    /\ acc = None
    /\ walk = Idle

\* prop.addmethod(name, fn); prop.updatetrampoline()
addmethod(name, fn) ==
    /\ last = Idle
    /\ walk = Idle
    /\ name \in illegalmethods \/ name \in tdict \/ Cardinality(tdict) < MaxReg
    /\ IF name \in illegalmethods
       THEN /\ reg' = [op |-> "addmethod", name |-> name,
                       exc |-> Exc("AttributeError", "can't define")]
            /\ UNCHANGED <<tdict, wrapped, name__, doc__, trampolinecls>>
       ELSE /\ reg' = [op |-> "addmethod", name |-> name, exc |-> NoExc]
            /\ tdict' = tdict \cup {name}
            /\ wrapped' = [n \in tdict' |-> IF n = name THEN fn ELSE wrapped[n]]
            /\ name__' = updatename(name__, fn.name)
            /\ doc__' = updatedoc(doc__, fn.doc)
            /\ trampolinecls' = updatetrampoline(tdict', name__', doc__')
    /\ UNCHANGED <<kind, start, stop, base, gets, sets, dels, last, document_indices,
                   acc, walk>>

\* x = obj.prop[i], obj.prop[i] = 7 or del obj.prop[i] for a single index,
\* with handlers that do not raise
ItemOp(op, index) ==
    /\ last = Idle
    /\ walk = Idle
    /\ LET f == <<0, "RuntimeError">>
           value == IF op = "write" THEN Scalar(7) ELSE NoValue
           r == Outcome(op, index, value, f[1], f[2]) IN
       /\ gets' = (IF op = "read" THEN gets \o Effects(r.log) ELSE gets)
       /\ sets' = (IF op = "write" THEN sets \o Effects(r.log) ELSE sets)
       /\ dels' = (IF op = "delete" THEN dels \o Effects(r.log) ELSE dels)
       /\ last' = Record(op, index, value, f, r)
    /\ UNCHANGED <<kind, start, stop, base, tdict, name__, trampolinecls,
                   document_indices, doc__, reg, acc, walk, wrapped>>

GetOne == \E index \in SingleIdx : ItemOp("read", index)
SetOne == \E index \in SingleIdx : ItemOp("write", index)
DelOne == \E index \in SingleIdx : ItemOp("delete", index)

NextReg ==
    \/ \E name \in Names, fn \in Fns : addmethod(name, fn)
    \/ GetOne
    \/ SetOne
    \/ DelOne
    \/ setUp

SpecReg == InitReg /\ [][NextReg]_vars

----------------------------------------------------------------------------
(* A container that its owner changes between accesses.                    *)

\* the keys the owner adds to and removes from the container
MutKeys == {Single(0), Single(1), Single(2)}

InitMut ==
    /\ kind = "container"
    /\ start = 0
    /\ stop = 0
    /\ base = <<Single(2), Single(0)>>
    /\ document_indices = TRUE
    /\ tdict = HandlerNames
    /\ wrapped = [n \in HandlerNames |-> TestFn]
    /\ name__ = updatename(None, TestFn.name)
    /\ doc__ = updatedoc(None, TestFn.doc)
    /\ trampolinecls = updatetrampoline(tdict, name__, doc__)
    /\ gets = <<>>
    /\ sets = <<>>
    /\ dels = <<>>
    /\ last = Idle
    /\ reg = Idle
    /\ acc = None
    /\ walk = Idle

\* p = obj.prop: IndexedProperty.__get__ returns a trampoline, which the
\* caller keeps; seen is the container's content at that moment
Bind ==
    /\ last = Idle
    /\ walk = Idle
    /\ acc = None
    /\ trampolinecls.built
    /\ acc' = Some([dict |-> trampolinecls.dict, seen |-> base])
    /\ UNCHANGED <<kind, start, stop, base, tdict, name__, trampolinecls, gets, sets, dels,
                   last, document_indices, doc__, reg, walk, wrapped>>

\* the owner appends a key to the container (base.append(x)) or removes one
\* (base.remove(x)); the descriptor and the trampolines hold the same list
Mutate ==
    /\ last = Idle
    /\ walk = Idle
    /\ \E x \in MutKeys :
          base' = (IF Contains(base, x)
                   THEN SelectSeq(base, LAMBDA y : y # x)
                   ELSE Append(base, x))
    /\ UNCHANGED <<kind, start, stop, tdict, name__, trampolinecls, gets, sets, dels,
                   last, document_indices, doc__, reg, acc, walk, wrapped>>

NextMut ==
    \/ Bind
    \/ Mutate
    \/ GetOne
    \/ SetOne
    \/ DelOne
    \/ DoLen
    \/ setUp

SpecMut == InitMut /\ [][NextMut]_vars

----------------------------------------------------------------------------
(* What the specification says about indices, stated without the           *)
(* trampoline's own helpers.                                               *)

HandlerOf(op) ==
    CASE op = "read" -> "getter"
      [] op = "write" -> "setter"
      [] op = "delete" -> "deleter"

\* an index operation was performed on a bound accessor whose handler exists
Dispatched ==
    /\ last # Idle
    /\ trampolinecls.built
    /\ HandlerOf(last.op) \in trampolinecls.dict

\* wrapNegative of the specification
Wrapped(i) == IF i < 0 /\ start >= 0 THEN stop + i ELSE i
InBounds(w) == start <= w /\ w < stop
\* clip of the specification
Clamp(w) == IF w < start THEN start ELSE IF w > stop THEN stop ELSE w

\* b, b+s, b+2s, ... up to (excluding) e
RECURSIVE SelSeq(_, _, _)
SelSeq(b, e, s) ==
    IF (s > 0 /\ b < e) \/ (s < 0 /\ b > e)
    THEN <<Single(b)>> \o SelSeq(b + s, e, s)
    ELSE <<>>

NoCalls == gets = <<>> /\ sets = <<>> /\ dels = <<>>
\* the owner's records hold exactly the calls of the log that did not raise
EffectsKept ==
    /\ (CASE last.op = "read" -> gets
          [] last.op = "write" -> sets
          [] last.op = "delete" -> dels) = SelectSeq(last.log, LAMBDA c : ~c.raised)
    /\ Len(gets) + Len(sets) + Len(dels) = Len(SelectSeq(last.log, LAMBDA c : ~c.raised))

OutOfRange == Exc("IndexError", "index out of range")
NotFound == Exc("KeyError", "key")
LengthMismatch == Exc("ValueError", "length mismatch")

----------------------------------------------------------------------------
\* C1: on a range accessor, a single integer index whose wrapped value is
\* outside [start, stop) makes read, write and delete fail with OutOfRange
\* without any handler call, below start as well as at or above stop.
C1_SingleOutOfRange ==
    (/\ Dispatched
     /\ kind = "range"
     /\ last.index.shape = "single"
     /\ ~InBounds(Wrapped(last.index.i)))
    => (last.exc = OutOfRange /\ last.log = <<>> /\ NoCalls)

\* C2: an error raised by a handler ends the operation at that call and
\* reaches the caller unchanged: the raising call is the last handler call,
\* the earlier calls' effects are kept, whatever the kind of error.
C2_HandlerErrorPropagates ==
    (/\ Dispatched
     /\ \E k \in 1..Len(last.log) : last.log[k].raised)
    => (/\ last.log[Len(last.log)].raised
        /\ \A k \in 1..(Len(last.log) - 1) : ~last.log[k].raised
        /\ last.exc = Exc(last.failKind, "handler")
        /\ EffectsKept)

\* C3: on a range accessor, read and delete with a range selector of nonzero
\* step never fail with OutOfRange, whatever the endpoints and the sign of
\* the step.
C3_SelectorNeverOutOfRange ==
    (/\ Dispatched
     /\ kind = "range"
     /\ last.op \in {"read", "delete"}
     /\ last.index.shape = "slice"
     /\ last.index.step # Some(0))
    => last.exc.exc # "IndexError"

----------------------------------------------------------------------------
(* Broadcasts, as the specification describes them.                        *)

SpecBegin(sl) == IF sl.start = None THEN start ELSE Clamp(Wrapped(sl.start[1]))
SpecEnd(sl) == IF sl.stop = None THEN stop ELSE Clamp(Wrapped(sl.stop[1]))
SpecStep(sl) == IF sl.step = None THEN 1 ELSE sl.step[1]

\* the index operation is a broadcast over an index set
IsBroadcast ==
    /\ kind \in {"container", "range"}
    /\ \/ last.index.shape = "list"
       \/ kind = "range" /\ last.index.shape = "slice" /\ last.index.step # Some(0)

\* the index set S: the list's elements, or the expansion of the selector
IndexSet ==
    IF last.index.shape = "list" THEN last.index.elems
    ELSE SelSeq(SpecBegin(last.index), SpecEnd(last.index), SpecStep(last.index))

Member(x) == x \in {base[k] : k \in 1..Len(base)}

\* an index that is itself an element of the range / of the container
Valid(x) == IF kind = "range" THEN InBounds(x.i) ELSE Member(x)
\* an index that passes the specification's resolveSingle, and what it resolves to
SpecValid(x) == IF kind = "range" THEN InBounds(Wrapped(x.i)) ELSE Member(x)
SpecResolve(x) == IF kind = "range" THEN Single(Wrapped(x.i)) ELSE x

Keys(log) == [k \in 1..Len(log) |-> log[k].key]

\* C4: a write over an index set S of valid elements with a sized non-text
\* value V makes, when len(V) = len(S), exactly the calls setter(S[k], V[k])
\* in the order of S; when the lengths differ it fails with LengthMismatch
\* and makes no setter call.  (Handlers that do not raise.)
C4_PairedBroadcast ==
    (/\ Dispatched
     /\ last.op = "write"
     /\ IsBroadcast
     /\ last.value.vshape = "list"
     /\ last.failAt = 0
     /\ \A k \in 1..Len(IndexSet) : Valid(IndexSet[k]))
    => LET S == IndexSet
           V == last.value.elems
       IN IF Len(V) = Len(S)
          THEN /\ last.exc = NoExc
               /\ last.log = [k \in 1..Len(S) |->
                                 [key |-> S[k], value |-> V[k], raised |-> FALSE]]
               /\ sets = last.log /\ gets = <<>> /\ dels = <<>>
          ELSE /\ last.exc = LengthMismatch
               /\ last.log = <<>>
               /\ NoCalls

C4_Witness ==
    /\ Dispatched
    /\ last.op = "write"
    /\ kind = "range"
    /\ last.index.shape = "slice"
    /\ last.value.vshape = "list"
    /\ last.failAt = 0
    /\ Len(IndexSet) = 2
    /\ \A k \in 1..Len(IndexSet) : Valid(IndexSet[k])
    /\ Len(sets) = 2
    /\ sets[2].value = last.value.elems[2]

\* C5: a write over an index set S of valid elements with a value v that is
\* text or has no length makes exactly len(S) setter calls, one per element
\* in the order of S, each with the whole v, and never fails with
\* LengthMismatch.  (Handlers that do not raise.)
C5_ScalarBroadcast ==
    (/\ Dispatched
     /\ last.op = "write"
     /\ IsBroadcast
     /\ last.value.vshape \in {"str", "scalar"}
     /\ last.failAt = 0
     /\ \A k \in 1..Len(IndexSet) : Valid(IndexSet[k]))
    => LET S == IndexSet
       IN /\ last.exc = NoExc
          /\ last.log = [k \in 1..Len(S) |->
                            [key |-> S[k], value |-> last.value, raised |-> FALSE]]
          /\ sets = last.log /\ gets = <<>> /\ dels = <<>>

C5_Witness ==
    /\ Dispatched
    /\ last.op = "write"
    /\ IsBroadcast
    /\ last.value.vshape = "str"
    /\ last.failAt = 0
    /\ Len(IndexSet) = 1
    /\ Len(last.value.chars) # Len(IndexSet)
    /\ Valid(IndexSet[1])
    /\ Len(sets) = 1
    /\ sets[1].value = last.value

\* C6: on a container accessor, a single index that is not a member makes
\* read, write and delete fail with NotFound with no handler call; a single
\* member is handed to the handler unchanged.
C6_ContainerMembership ==
    (/\ Dispatched
     /\ kind = "container"
     /\ last.index.shape = "single")
    => IF Member(last.index)
       THEN Len(last.log) = 1 /\ last.log[1].key = last.index
       ELSE last.exc = NotFound /\ last.log = <<>> /\ NoCalls

C6_Witness ==
    /\ Dispatched
    /\ kind = "container"
    /\ last.index.shape = "single"
    /\ base # <<>>
    /\ ~Member(last.index)
    /\ last.op = "delete"
    /\ last.exc = NotFound

\* C7: on a range [a, b) with a >= 0, read, write and delete of -k for
\* 1 <= k <= b - a call the handler with b - k; on a range with a < 0 the
\* index -1 is passed literally when a <= -1 < b and fails with OutOfRange
\* (no handler call) otherwise.
C7_NegativeIndex ==
    (/\ Dispatched
     /\ kind = "range"
     /\ last.index.shape = "single")
    => LET i == last.index.i IN
       /\ (start >= 0 /\ i < 0 /\ 0 - i <= stop - start)
            => /\ Len(last.log) = 1
               /\ last.log[1].key = Single(stop + i)
               /\ (last.op = "read" /\ last.exc = NoExc)
                     => last.ret = Some(fget(Single(stop + i)))
       /\ (start < 0 /\ i = -1)
            => IF start <= -1 /\ -1 < stop
               THEN Len(last.log) = 1 /\ last.log[1].key = Single(-1)
               ELSE last.exc = OutOfRange /\ last.log = <<>> /\ NoCalls

C7_Witness ==
    /\ Dispatched
    /\ kind = "range"
    /\ start >= 0
    /\ last.op = "read"
    /\ last.index = Single(-2)
    /\ last.ret = Some(fget(Single(stop - 2)))

\* C8: on a range accessor, read of a selector with absent or positive step
\* returns the getter results for b', b'+step, b'+2*step, ... below e', in
\* that order (b', e' the wrapped and clamped endpoints, defaulting to start
\* and stop); delete calls the deleter for the same indices in that order.
\* (Handlers that do not raise.)
C8_SelectorExpansion ==
    (/\ Dispatched
     /\ kind = "range"
     /\ last.op \in {"read", "delete"}
     /\ last.index.shape = "slice"
     /\ SpecStep(last.index) > 0
     /\ last.failAt = 0)
    => LET S == IndexSet
       IN /\ last.exc = NoExc
          /\ Keys(last.log) = S
          /\ last.op = "read" => /\ last.ret = Some([list |-> [k \in 1..Len(S) |-> fget(S[k])]])
                                 /\ Keys(gets) = S
          /\ last.op = "delete" => Keys(dels) = S

C8_Witness ==
    /\ Dispatched
    /\ kind = "range"
    /\ last.op = "read"
    /\ last.index.shape = "slice"
    /\ last.index.step = Some(2)
    /\ last.index.start # None
    /\ last.index.start[1] < start
    /\ last.exc = NoExc
    /\ Len(last.ret[1].list) = 2

\* C9: in a broadcast read, write or delete over S on a container or range
\* accessor, if S[k] is the first element that fails validation, the
\* operation fails with NotFound / OutOfRange, the handler has been called
\* exactly for the elements before S[k], in order, with their effects kept,
\* and for no later element.  (Handlers that do not raise; writes whose
\* value does not fail the length comparison.)
C9_BroadcastValidation ==
    (/\ Dispatched
     /\ IsBroadcast
     /\ last.failAt = 0
     /\ last.op = "write" =>
            ~(last.value.vshape = "list" /\ Len(last.value.elems) # Len(IndexSet))
     /\ \E k \in 1..Len(IndexSet) : ~SpecValid(IndexSet[k]))
    => LET S == IndexSet
           k == CHOOSE j \in 1..Len(S) :
                    ~SpecValid(S[j]) /\ \A m \in 1..(j - 1) : SpecValid(S[m])
       IN /\ last.exc = (IF kind = "range" THEN OutOfRange ELSE NotFound)
          /\ Keys(last.log) = [j \in 1..(k - 1) |-> SpecResolve(S[j])]
          /\ EffectsKept

\* C10: an index operation on a bound accessor whose handler is not
\* registered fails with Unsupported and calls no handler, whatever the
\* index (out of range, not a member, zero-step selector).
C10_MissingHandler ==
    (/\ last # Idle
     /\ trampolinecls.built
     /\ HandlerOf(last.op) \notin trampolinecls.dict)
    => /\ last.exc.exc = "NotImplementedError"
       /\ last.log = <<>>
       /\ NoCalls

C10_Witness ==
    /\ last # Idle
    /\ trampolinecls.built
    /\ HandlerOf(last.op) \notin trampolinecls.dict
    /\ kind = "range"
    /\ last.index.shape = "slice"
    /\ last.index.step = Some(0)
    /\ last.exc.exc = "NotImplementedError"

----------------------------------------------------------------------------
(* Iteration.                                                              *)

\* a len() or an iteration was performed on a bound accessor
Walked(op) == walk # Idle /\ walk.op = op /\ trampolinecls.built
\* ... that has a getter whose calls do not raise
WalkedRead(op) == Walked(op) /\ "getter" \in trampolinecls.dict /\ walk.failAt = 0

\* start, start+1, ..., stop-1
Ascending == [k \in 1..(stop - start) |-> Single(start + k - 1)]
\* stop-1, ..., start
Descending == [k \in 1..(stop - start) |-> Single(stop - k)]

\* the container holds no list or tuple
AtomsOnly == \A k \in 1..Len(base) : base[k].shape = "single"

\* C13: on a range accessor the length is stop - start, iteration yields the
\* getter results for start..stop-1 ascending, reversed() the same descending,
\* items() the pairs (i, read(i)) ascending, and a full pass calls the getter
\* exactly once per index.
C13_RangeWalk ==
    kind = "range" =>
    /\ Walked("len") => walk.ret = Some(<<[len |-> stop - start]>>) /\ NoCalls
    /\ WalkedRead("iter") =>
          /\ walk.ret = Some([k \in 1..(stop - start) |-> fget(Ascending[k])])
          /\ Keys(gets) = Ascending /\ sets = <<>> /\ dels = <<>>
    /\ WalkedRead("reversed") =>
          /\ walk.ret = Some([k \in 1..(stop - start) |-> fget(Descending[k])])
          /\ Keys(gets) = Descending /\ sets = <<>> /\ dels = <<>>
    /\ WalkedRead("items") =>
          /\ walk.ret = Some([k \in 1..(stop - start) |->
                                 [key |-> Ascending[k], value |-> fget(Ascending[k])]])
          /\ Keys(gets) = Ascending /\ sets = <<>> /\ dels = <<>>

C13_Witness ==
    /\ kind = "range"
    /\ WalkedRead("reversed")
    /\ stop - start = 3
    /\ Len(gets) = 3
    /\ walk.ret[1][1] = fget(Single(stop - 1))

C16_AscendingOrder ==
    (/\ Dispatched
     /\ IsBroadcast
     /\ last.op \in {"write", "delete"})
    => \A j, k \in 1..Len(last.log) : j < k => last.log[j].key.i < last.log[k].key.i

\* C16 as amended: in a broadcast write or delete over an index set whose
\* elements all resolve, the handler calls follow the order of the index set
\* itself (repeats kept, descending for a negative step): the indices passed
\* are the resolved elements of a prefix of the index set, the whole index
\* set when nothing fails; only a paired write whose setter raised a
\* TypeError goes through the index set a second time, in the same order.
C16_IndexSetOrder ==
    (/\ Dispatched
     /\ IsBroadcast
     /\ last.op \in {"write", "delete"}
     /\ \A k \in 1..Len(IndexSet) : SpecValid(IndexSet[k]))
    => LET R == [k \in 1..Len(IndexSet) |-> SpecResolve(IndexSet[k])]
           mismatch == /\ last.op = "write"
                       /\ last.value.vshape = "list"
                       /\ Len(last.value.elems) # Len(R)
       IN \E a, b \in 0..Len(R) :
             /\ Keys(last.log) = SubSeq(R, 1, a) \o SubSeq(R, 1, b)
             /\ b > 0 => /\ last.op = "write"
                         /\ last.value.vshape = "list"
                         /\ last.failKind = "TypeError"
                         /\ last.log[a].raised
             /\ (last.failAt = 0 /\ ~mismatch) => (a = Len(R) /\ b = 0)

C16_Witness ==
    /\ Dispatched
    /\ IsBroadcast
    /\ last.op = "delete"
    /\ last.index.shape = "list"
    /\ Keys(dels) = last.index.elems
    /\ Len(dels) = 2
    /\ dels[1].key.i > dels[2].key.i

----------------------------------------------------------------------------
(* Registration.                                                           *)

\* the three reserved names of the index operations
Reserved == {"__getitem__", "__setitem__", "__delitem__"}

\* the registration of fn under name was rejected and changed nothing
Rejected(name, fn) ==
    /\ reg'.exc # NoExc
    /\ UNCHANGED <<tdict, wrapped, name__, doc__, trampolinecls>>

\* the registration of fn under name was accepted and stored fn
Accepted(name, fn) ==
    /\ reg'.exc = NoExc
    /\ name \in tdict'
    /\ wrapped'[name] = fn
    /\ \A n \in tdict : n \in tdict' /\ (n # name => wrapped'[n] = wrapped[n])
    /\ trampolinecls'.built /\ trampolinecls'.dict = tdict'

\* C11 as stated: on every variant a registration is rejected exactly when
\* the name is one of the three reserved index-operation names; a rejected
\* registration leaves the registry, the name and the doc unchanged, any
\* other registration is accepted and stores fn under the name.
C11_ReservedNames ==
    [][\A name \in Names, fn \in Fns :
          addmethod(name, fn) =>
              IF name \in Reserved THEN Rejected(name, fn) ELSE Accepted(name, fn)]_vars

\* C11 as amended: the names rejected are the three reserved names on every
\* variant and, on the container and range variants, also __iter__ and
\* __len__; rejected and accepted registrations behave as stated.
C11_IllegalNames ==
    [][\A name \in Names, fn \in Fns :
          addmethod(name, fn) =>
              IF \/ name \in Reserved
                 \/ kind \in {"container", "range"} /\ name \in {"__iter__", "__len__"}
              THEN Rejected(name, fn)
              ELSE Accepted(name, fn)]_vars

C11_Witness ==
    /\ kind = "container"
    /\ reg # Idle
    /\ reg.name = "__len__"
    /\ reg.exc # NoExc
    /\ tdict = {"getter", "upper"}
    /\ wrapped["upper"].name = "upper"

\* C12: the descriptor's name and doc are those seeded by the first
\* registration that found them unset; once set, no later registration
\* changes them, and the bound accessor exposes that same doc.
C12_FirstWins ==
    [][/\ name__ # None => name__' = name__
       /\ doc__ # None => doc__' = doc__
       /\ trampolinecls'.built => trampolinecls'.doc = doc__'
       /\ \A name \in Names, fn \in Fns :
             (addmethod(name, fn) /\ reg'.exc = NoExc) =>
                 /\ name__ = None => name__' = Some(fn.name)
                 /\ doc__ = None =>
                       IF kind # "plain" /\ document_indices
                       THEN doc__' # None /\ doc__'[1].text = fn.doc
                       ELSE IF fn.doc = None THEN doc__' = None
                       ELSE doc__' # None /\ doc__'[1].text = fn.doc]_vars

C12_Witness ==
    /\ kind = "plain"
    /\ trampolinecls.built
    /\ tdict = {"getter", "setter"}
    /\ wrapped["getter"].doc = None
    /\ wrapped["setter"] = TestFn
    /\ name__ = Some(wrapped["getter"].name)
    /\ doc__ # None
    /\ doc__[1].text = TestFn.doc
    /\ trampolinecls.doc = doc__
    /\ reg.name = "getter"

\* C17: registration never weakens validation: on a container or range
\* descriptor, whatever was registered, a single index is accepted by read,
\* write and delete exactly when the validation of the container or of the
\* (start, stop) bounds given at construction accepts it.
C17_ValidationKept ==
    (/\ Dispatched
     /\ kind \in {"container", "range"}
     /\ last.index.shape = "single")
    => (last.exc = NoExc <=>
           (IF kind = "range" THEN RangeModindex(last.index).exc = NoExc
            ELSE ContainerModindex(last.index).exc = NoExc))

----------------------------------------------------------------------------
(* The backing container is not cached.                                    *)

\* C15: however the owner's additions and removals interleave with the
\* accessor operations, a single-index read, write or delete of x succeeds
\* exactly when x is in the container at the moment of the call, and the
\* length reported is the container's size at that moment, for an accessor
\* bound before the mutation as well as after it.
C15_LiveContainer ==
    kind = "container" =>
    /\ (Dispatched /\ last.index.shape = "single") =>
          /\ last.exc = NoExc <=> Member(last.index)
          /\ last.exc # NoExc => last.exc = NotFound /\ last.log = <<>>
    /\ Walked("len") => walk.ret = Some(<<[len |-> Len(base)]>>)

C15_Witness ==
    /\ kind = "container"
    /\ acc # None
    /\ Dispatched
    /\ last.op = "write"
    /\ last.index = Single(1)
    /\ ~Contains(acc[1].seen, last.index)
    /\ Contains(acc[1].seen, Single(2))
    /\ ~Member(Single(2))
    /\ last.exc = NoExc
    /\ Keys(sets) = <<Single(1)>>

====
